---- MODULE Spec2Model ----
(***************************************************************************)
(* Model of prune: the analysis engine (src/prune/analyzer.py), the        *)
(* command line entry point and the apply/undo transaction                 *)
(* (src/prune/cli.py).  Paths and file contents are strings; the string    *)
(* conversions of the program (fnmatch, shlex.quote, the shell's word      *)
(* splitting of the generated undo script) are modelled character by       *)
(* character.                                                              *)
(***************************************************************************)
EXTENDS Integers, Sequences, FiniteSets, TLC

VARIABLES
    fs,         \* files of the scanned root: relative posix path -> text
    dirs,       \* directories below the root (relative posix paths)
    xbit,       \* paths of the files that carry an execute permission
    pc,         \* position of the running invocation
    args,       \* arguments of the running invocation
    plan,       \* the Plan value held by the invocation
    ts,         \* apply_plan: timestamp
    idx,        \* apply_plan: index of the next candidate of the loop
    moved,      \* apply_plan: moved
    moved_rows, \* apply_plan: moved_rows
    undo_lines, \* apply_plan: undo_lines
    sh,         \* the shell that ran undo.sh: last line reached, variables
    status,     \* exit status of the invocation (-1 while it runs)
    calls,      \* history: the library calls made so far, in order
    written,    \* history: paths the tool has written or moved a file to
    fs0,        \* history: fs when the running call started
    moveLog     \* history: relative paths given to os.replace, in order

vars == <<fs, dirs, xbit, pc, args, plan, ts, idx, moved, moved_rows, undo_lines,
          sh, status, calls, written, fs0, moveLog>>

\* the local variables of apply_plan
locals == <<ts, idx, moved, moved_rows, undo_lines>>

-----------------------------------------------------------------------------
(* Strings *)

Char(s, i) == SubSeq(s, i, i)

Rest(s) == SubSeq(s, 2, Len(s))

StartsWith(s, p) == Len(s) >= Len(p) /\ SubSeq(s, 1, Len(p)) = p

EndsWith(s, p) == Len(s) >= Len(p) /\ SubSeq(s, Len(s) - Len(p) + 1, Len(s)) = p

\* Python's `term in content`
Contains(s, t) == \E i \in 1..(Len(s) - Len(t) + 1) : SubSeq(s, i, i + Len(t) - 1) = t

\* positions of the separator c in s
SepPos(s, c) == {i \in 1..Len(s) : Char(s, i) = c}

\* the k-th smallest member of a set of positions (k = 0 gives 0)
NthPos(P, k) == IF k = 0 THEN 0 ELSE CHOOSE i \in P : Cardinality({j \in P : j < i}) = k - 1

\* the largest member of a set of positions (0 when there is none)
LastPos(P) == IF P = {} THEN 0 ELSE CHOOSE i \in P : \A j \in P : j <= i

\* the pieces of s between the separator positions P
SplitAt(s, P) ==
    [k \in 1..(Cardinality(P) + 1) |->
        SubSeq(s, NthPos(P, k - 1) + 1,
               IF k = Cardinality(P) + 1 THEN Len(s) ELSE NthPos(P, k) - 1)]

\* str.split(sep) for a one-character separator
Split(s, c) == SplitAt(s, SepPos(s, c))

RECURSIVE Join(_, _)
\* sep.join(seq)
Join(seq, sep) ==
    IF Len(seq) = 0 THEN ""
    ELSE IF Len(seq) = 1 THEN seq[1]
    ELSE seq[1] \o sep \o Join(Tail(seq), sep)

\* code point order of the characters that occur in paths
CodeOrder == " '-./0123456789ABCDEFGHIJKLMNOPQRSTUVWXYZ_abcdefghijklmnopqrstuvwxyz"

\* the position of each of these characters in the order
OrdTable ==
    [c \in {Char(CodeOrder, i) : i \in 1..Len(CodeOrder)} |->
        CHOOSE i \in 1..Len(CodeOrder) : Char(CodeOrder, i) = c]

Ord(c) == OrdTable[c]

RECURSIVE StrLess(_, _)
\* Python's s < t on str
StrLess(s, t) ==
    IF t = "" THEN FALSE
    ELSE IF s = "" THEN TRUE
    ELSE IF Char(s, 1) = Char(t, 1) THEN StrLess(Rest(s), Rest(t))
    ELSE Ord(Char(s, 1)) < Ord(Char(t, 1))

-----------------------------------------------------------------------------
(* pathlib *)

\* Path(p).parts
Parts(p) == Split(p, "/")

Last(seq) == seq[Len(seq)]

\* Path(p).name
Name(p) == Last(Parts(p))

\* the part of p before its last separator, at position i (0: there is none)
ParentAt(p, i) == IF i = 0 THEN "." ELSE SubSeq(p, 1, i - 1)

\* Path(p).parent.as_posix()
Parent(p) == ParentAt(p, LastPos(SepPos(p, "/")))

\* the directories mkdir(parents=True) creates for the directory d
DirChain(d) ==
    IF d = "." THEN {}
    ELSE {SubSeq(d, 1, i - 1) : i \in SepPos(d, "/")} \cup {d}

\* Path(p).suffix.lower() (paths of the model are lower case where it matters)
\* the suffix of the name n whose last dot is at position i (0: no dot)
SuffixAt(n, i) == IF 1 < i /\ i < Len(n) THEN SubSeq(n, i, Len(n)) ELSE ""

NameSuffix(n) == SuffixAt(n, LastPos(SepPos(n, ".")))

Suffix(p) == NameSuffix(Name(p))

\* Path(p).with_suffix("").as_posix()
WithoutSuffix(p) == SubSeq(p, 1, Len(p) - Len(Suffix(p)))

-----------------------------------------------------------------------------
(* shlex.quote and the shell that reads it back *)

SafeChars == "abcdefghijklmnopqrstuvwxyzABCDEFGHIJKLMNOPQRSTUVWXYZ0123456789_@%+=:,./-"

IsSafe(c) == \E i \in 1..Len(SafeChars) : Char(SafeChars, i) = c

RECURSIVE ReplaceQuote(_)
\* s.replace("'", "'\"'\"'")
ReplaceQuote(s) ==
    IF s = "" THEN ""
    ELSE (IF Char(s, 1) = "'" THEN "'\"'\"'" ELSE Char(s, 1)) \o ReplaceQuote(Rest(s))

\* shlex.quote
ShlexQuote(s) ==
    IF s = "" THEN "''"
    ELSE IF \A i \in 1..Len(s) : IsSafe(Char(s, i)) THEN s
    ELSE "'" \o ReplaceQuote(s) \o "'"

NameChars == "ABCDEFGHIJKLMNOPQRSTUVWXYZ_"

IsNameChar(c) == \E i \in 1..Len(NameChars) : Char(NameChars, i) = c

\* end of the variable name that starts at position i of s
NameEnd(s, i) ==
    LET stops == {j \in i..Len(s) : ~IsNameChar(Char(s, j))}
    IN  IF stops = {} THEN Len(s)
        ELSE (CHOOSE j \in stops : \A k \in stops : j <= k) - 1

\* the first position at or after i of s that holds a character of cs
\* (Len(s) + 1 when there is none)
NextOf(s, i, cs) ==
    LET P == {j \in i..Len(s) : Char(s, j) \in cs}
    IN  IF P = {} THEN Len(s) + 1 ELSE CHOOSE j \in P : \A k \in P : j <= k

RECURSIVE ShTok(_, _, _, _, _, _, _)
\* POSIX sh word splitting of one simple command: mode "n" outside quotes,
\* "s" inside '...', "d" inside "..." (where $NAME expands from env)
ShTok(s, i, mode, cur, inword, acc, env) ==
    IF i > Len(s) THEN (IF inword THEN Append(acc, cur) ELSE acc)
    ELSE IF mode = "s" THEN
        LET j == NextOf(s, i, {"'"})
        IN  ShTok(s, j + 1, "n", cur \o SubSeq(s, i, j - 1), TRUE, acc, env)
    ELSE IF mode = "d" THEN
        LET j == NextOf(s, i, {"\"", "$"})
            got == cur \o SubSeq(s, i, j - 1)
        IN  IF j > Len(s) \/ Char(s, j) = "\"" THEN ShTok(s, j + 1, "n", got, TRUE, acc, env)
            ELSE IF j < Len(s) /\ IsNameChar(Char(s, j + 1)) THEN
                LET e == NameEnd(s, j + 1)
                    v == SubSeq(s, j + 1, e)
                IN  ShTok(s, e + 1, "d",
                          got \o (IF v \in DOMAIN env THEN env[v] ELSE ""),
                          TRUE, acc, env)
            ELSE ShTok(s, j + 1, "d", got \o "$", TRUE, acc, env)
    ELSE
        LET j == NextOf(s, i, {" ", "'", "\""})
            got == cur \o SubSeq(s, i, j - 1)
            word == inword \/ j > i
        IN  IF j > Len(s) THEN ShTok(s, j, "n", got, word, acc, env)
            ELSE IF Char(s, j) = " " THEN
                ShTok(s, j + 1, "n", "", FALSE,
                      IF word THEN Append(acc, got) ELSE acc, env)
            ELSE IF Char(s, j) = "'" THEN ShTok(s, j + 1, "s", got, TRUE, acc, env)
            ELSE ShTok(s, j + 1, "d", got, TRUE, acc, env)

ShWords(line, env) == ShTok(line, 1, "n", "", FALSE, << >>, env)

-----------------------------------------------------------------------------
(* Sequences *)

\* sorted(seq, key=...) where Less compares the keys: stable, as list.sort is
StableSort(seq, Less(_, _)) ==
    LET rank == [k \in 1..Len(seq) |->
                    Cardinality({j \in 1..Len(seq) :
                        \/ Less(seq[j], seq[k])
                        \/ (~Less(seq[k], seq[j]) /\ j < k)})]
    IN  [r \in 1..Len(seq) |-> seq[CHOOSE k \in 1..Len(seq) : rank[k] = r - 1]]

Range(seq) == {seq[k] : k \in 1..Len(seq)}

RECURSIVE Flatten(_)
\* the concatenation of a sequence of sequences
Flatten(seqs) == IF seqs = << >> THEN << >> ELSE seqs[1] \o Flatten(Tail(seqs))

\* the members of seq without repeats, each at its first position
Distinct(seq) ==
    LET keep == {k \in 1..Len(seq) : \A j \in 1..(k - 1) : seq[j] /= seq[k]}
    IN  [r \in 1..Cardinality(keep) |-> seq[NthPos(keep, r)]]

\* the set S as a sequence in the order Less
SetToSeq(S, Less(_, _)) ==
    [r \in 1..Cardinality(S) |->
        CHOOSE x \in S : Cardinality({y \in S : Less(y, x)}) = r - 1]

Upper == "ABCDEFGHIJKLMNOPQRSTUVWXYZ"

LowerCase == "abcdefghijklmnopqrstuvwxyz"

RECURSIVE Lower(_)
\* str.lower()
Lower(s) ==
    IF s = "" THEN ""
    ELSE LET c == Char(s, 1)
             U == {i \in 1..Len(Upper) : Char(Upper, i) = c}
         IN  (IF U = {} THEN c ELSE Char(LowerCase, CHOOSE i \in U : TRUE)) \o Lower(Rest(s))

-----------------------------------------------------------------------------
(* analyzer.py: constants *)

TEXT_EXTENSIONS == {".py", ".md", ".toml", ".yaml", ".yml", ".json", ".ini",
                    ".cfg", ".txt", ".rst", ".sh"}

CONFIG_EXTENSIONS == {".toml", ".yaml", ".yml", ".json", ".ini", ".cfg"}

SCRIPT_EXTENSIONS == {".sh", ".bash", ".zsh"}

EXPERIMENT_DIRS == {"experiments", "scratch", "tmp", "old", "archive", "backup"}

DEFAULT_EXCLUDES ==
    << ".git/**", ".venv/**", "__pycache__/**", ".pytest_cache/**",
       ".mypy_cache/**", ".ruff_cache/**", "._trash_*/**",
       "deletion_plan.json", "deletion_plan.md", "deletion_plan.diff" >>

MAX_TEXT_BYTES == 1000000

-----------------------------------------------------------------------------
(* analyzer.py: file collection *)

RECURSIVE FnMatchAt(_, _, _, _)
\* fnmatch.fnmatch on posix: `*` matches any run of characters ('/' too),
\* `?` one character, anything else itself (no pattern of the model has a
\* bracket expression)
FnMatchAt(pat, s, i, j) ==
    IF i > Len(pat) THEN j > Len(s)
    ELSE IF Char(pat, i) = "*" THEN
        \/ FnMatchAt(pat, s, i + 1, j)
        \/ (j <= Len(s) /\ FnMatchAt(pat, s, i, j + 1))
    ELSE /\ j <= Len(s)
         /\ (Char(pat, i) = "?" \/ Char(pat, i) = Char(s, j))
         /\ FnMatchAt(pat, s, i + 1, j + 1)

FnMatch(name, pat) == FnMatchAt(pat, name, 1, 1)

_matches(path, patterns) == \E k \in 1..Len(patterns) : FnMatch(path, patterns[k])

\* os.walk does not descend below a directory whose "rel_dir/" matches
Pruned(p, patterns) == \E d \in DirChain(Parent(p)) : _matches(d \o "/", patterns)

\* _collect_files: the relative paths of the files collected, sorted
_collect_files(f, include, exclude) ==
    LET exclude_patterns == DEFAULT_EXCLUDES \o exclude
        results == {p \in DOMAIN f :
                       /\ ~Pruned(p, exclude_patterns)
                       /\ ~_matches(p, exclude_patterns)
                       /\ (Len(include) > 0 => _matches(p, include))}
    IN  SetToSeq(results, StrLess)

\* _file_info (mtime is never read)
_file_info(f, p) == [rel_path |-> p, size |-> Len(f[p]), extension |-> Lower(Suffix(p))]

FileInfos(f, include, exclude) ==
    LET files == _collect_files(f, include, exclude)
    IN  [k \in 1..Len(files) |-> _file_info(f, files[k])]

-----------------------------------------------------------------------------
(* analyzer.py: the text reference index *)

_build_text_reference_index(f, file_infos) ==
    LET text_files == {file_infos[k].rel_path : k \in
                          {j \in 1..Len(file_infos) :
                              /\ file_infos[j].extension \in TEXT_EXTENSIONS
                              /\ file_infos[j].size <= MAX_TEXT_BYTES}}
        terms == UNION {{file_infos[k].rel_path, Name(file_infos[k].rel_path)} :
                          k \in 1..Len(file_infos)}
    IN  {term \in terms : \E p \in text_files : Contains(f[p], term)}

-----------------------------------------------------------------------------
(* Python sources of the model and what ast.parse makes of them *)

SrcImportUtil == "import util\n"

SrcHelper == "def helper():\n    return 1\n"

SrcFromDotImportB == "from . import b\n"

SrcFromDotBImport == "from .b import helper\n"

SrcFromPkgImportB == "from pkg import b\n"

SrcImportPkgB == "import pkg.b\n"

SrcFromDotDotImportB == "from .. import b\n"

SrcDeadCode == "def used():\n    return 1\n\ndef unused():\n    return 2\n\nused()\n"

SrcMainGuard ==
    "def used():\n    return 1\n\ndef unused():\n    return 2\n\nif __name__ == \"__main__\":\n    used()\n"

SrcPrivate == "def _hidden():\n    return 1\n"

SrcExported == "__all__ = [\"api\"]\n\ndef api():\n    return 1\n"

SrcFromPruneImportA == "from prune import a\n\nvalue = a.helper()\n"

SrcBroken == "def (:\n"

Import(names) == [type |-> "import", module |-> "", level |-> 0, names |-> names]

ImportFrom(module, level, names) ==
    [type |-> "from", module |-> module, level |-> level, names |-> names]

Def(name, lineno) == [name |-> name, lineno |-> lineno]

Tree(imports, main_guard, all, defs, loads) ==
    [ok |-> TRUE, imports |-> imports, main_guard |-> main_guard, all |-> all,
     defs |-> defs, loads |-> loads]

SyntaxError == [ok |-> FALSE]

\* ast.parse(text), reduced to the nodes _ImportCollector visits: the Import
\* and ImportFrom statements, whether an `if __name__ == "__main__"` test
\* occurs, the strings of a list or tuple assigned to __all__, the def and
\* class statements with their lines, and the names read
Ast(text) ==
    CASE text = "" -> Tree(<< >>, FALSE, {}, << >>, {})
      [] text = SrcImportUtil -> Tree(<< Import(<< "util" >>) >>, FALSE, {}, << >>, {})
      [] text = SrcHelper -> Tree(<< >>, FALSE, {}, << Def("helper", 1) >>, {})
      [] text = SrcFromDotImportB ->
            Tree(<< ImportFrom("", 1, << "b" >>) >>, FALSE, {}, << >>, {})
      [] text = SrcFromDotBImport ->
            Tree(<< ImportFrom("b", 1, << "helper" >>) >>, FALSE, {}, << >>, {})
      [] text = SrcFromPkgImportB ->
            Tree(<< ImportFrom("pkg", 0, << "b" >>) >>, FALSE, {}, << >>, {})
      [] text = SrcImportPkgB -> Tree(<< Import(<< "pkg.b" >>) >>, FALSE, {}, << >>, {})
      [] text = SrcFromDotDotImportB ->
            Tree(<< ImportFrom("", 2, << "b" >>) >>, FALSE, {}, << >>, {})
      [] text = SrcDeadCode ->
            Tree(<< >>, FALSE, {}, << Def("used", 1), Def("unused", 4) >>, {"used"})
      [] text = SrcMainGuard ->
            Tree(<< >>, TRUE, {}, << Def("used", 1), Def("unused", 4) >>,
                 {"__name__", "used"})
      [] text = SrcPrivate -> Tree(<< >>, FALSE, {}, << Def("_hidden", 1) >>, {})
      [] text = SrcExported -> Tree(<< >>, FALSE, {"api"}, << Def("api", 3) >>, {})
      [] text = SrcFromPruneImportA ->
            Tree(<< ImportFrom("prune", 0, << "a" >>) >>, FALSE, {}, << >>, {"a"})
      [] OTHER -> SyntaxError

-----------------------------------------------------------------------------
(* analyzer.py: the Python index *)

\* list slicing parts[:n]
Take(seq, n) == IF n <= 0 THEN << >> ELSE SubSeq(seq, 1, IF n < Len(seq) THEN n ELSE Len(seq))

\* parts without a last part "__init__"
StripInit(parts) ==
    IF Last(parts) = "__init__" THEN Take(parts, Len(parts) - 1) ELSE parts

_module_name(rel_path) == Join(StripInit(Parts(WithoutSuffix(rel_path))), ".")

\* list slicing parts[:-level]
DropLast(parts, level) == Take(parts, Len(parts) - level)

\* _ImportCollector._resolve_relative
_resolve_relative(module_name, module, level) ==
    Join(DropLast(StripInit(Split(module_name, ".")), level)
            \o (IF module /= "" THEN Split(module, ".") ELSE << >>),
         ".")

\* _ImportCollector.visit_Import
visit_Import(node) == Range(node.names)

\* what visit_ImportFrom adds for the resolved module and the names
ImportedNames(module, names) ==
    (IF module /= "" THEN {module} ELSE {})
        \cup {IF module /= "" THEN module \o "." \o name ELSE name : name \in Range(names)}

\* _ImportCollector.visit_ImportFrom
visit_ImportFrom(module_name, node) ==
    ImportedNames(IF node.level /= 0
                  THEN _resolve_relative(module_name, node.module, node.level)
                  ELSE node.module,
                  node.names)

\* the _ImportCollector after visiting a tree
Collector(module_name, tree) ==
    [imports |-> UNION {IF tree.imports[k].type = "import"
                        THEN visit_Import(tree.imports[k])
                        ELSE visit_ImportFrom(module_name, tree.imports[k]) :
                        k \in 1..Len(tree.imports)},
     is_script |-> tree.main_guard,
     exports |-> tree.all,
     defs |-> Distinct([k \in 1..Len(tree.defs) |-> tree.defs[k].name]),
     lines |-> [n \in {tree.defs[k].name : k \in 1..Len(tree.defs)} |->
                  tree.defs[CHOOSE k \in 1..Len(tree.defs) :
                               /\ tree.defs[k].name = n
                               /\ \A j \in (k + 1)..Len(tree.defs) : tree.defs[j].name /= n].lineno],
     used |-> tree.loads]

\* the index, given the modules by name, the parsed ones in order and what
\* the collector found in each
PythonIndex(modules, parsed, collected) ==
    [modules |-> modules,
     referenced_modules |->
         {name \in UNION {collected[m].imports : m \in Range(parsed)} :
             name \in DOMAIN modules},
     order |-> parsed,
     metadata |-> [m \in Range(parsed) |->
                     [rel_path |-> modules[m],
                      is_script |-> collected[m].is_script,
                      exports |-> collected[m].exports,
                      defs |-> collected[m].defs,
                      lines |-> collected[m].lines,
                      used |-> collected[m].used]]]

\* the visits of the modules that parse
Visited(f, modules, parsed) ==
    PythonIndex(modules, parsed,
                [m \in Range(parsed) |-> Collector(m, Ast(f[modules[m]]))])

\* a module whose source does not parse is skipped
Parsed(f, order, modules) ==
    Visited(f, modules, SelectSeq(order, LAMBDA m : Ast(f[modules[m]]).ok))

\* modules[module_name] = info.rel_path: a later file of the same module
\* name replaces an earlier one
Named(f, py, names) ==
    Parsed(f, Distinct(names),
           [m \in Range(names) |->
               py[CHOOSE k \in 1..Len(py) :
                     /\ names[k] = m
                     /\ \A j \in (k + 1)..Len(py) : names[j] /= m].rel_path])

\* the index of the .py files py
IndexOf(f, py) == Named(f, py, [k \in 1..Len(py) |-> _module_name(py[k].rel_path)])

_build_python_index(f, file_infos) ==
    IndexOf(f, SelectSeq(file_infos, LAMBDA info : info.extension = ".py"))

-----------------------------------------------------------------------------
(* models.py *)

\* the resolved root directory
RootStr == "/r"

\* Candidate; confidence is kept in hundredths
Candidate(kind, action, path, reason, confidence, details) ==
    [kind |-> kind, action |-> action, path |-> path, reason |-> reason,
     confidence |-> confidence, details |-> details]

\* the empty details dict
NoDetails == [none |-> TRUE]

-----------------------------------------------------------------------------
(* analyzer.py: the candidate generators *)

\* hashlib.sha256 of the file's bytes, taken to be free of collisions
_hash_file(text) == "sha256:" \o text

\* the sort key without the length: i.rel_path alone
ShorterPath_LexicalOnly(i1, i2) == StrLess(i1.rel_path, i2.rel_path)

\* the sort key (len(i.rel_path), i.rel_path)
ShorterPath(i1, i2) ==
    \/ Len(i1.rel_path) < Len(i2.rel_path)
    \/ (Len(i1.rel_path) = Len(i2.rel_path) /\ StrLess(i1.rel_path, i2.rel_path))

_find_duplicate_files(f, file_infos) ==
    LET hashed == SelectSeq(file_infos, LAMBDA info : info.size /= 0)
        digests == Distinct([k \in 1..Len(hashed) |-> _hash_file(f[hashed[k].rel_path])])
        group(digest) ==
            SelectSeq(hashed, LAMBDA info : _hash_file(f[info.rel_path]) = digest)
        flagged(digest) ==
            LET infos == group(digest)
                infos_sorted == StableSort(infos, ShorterPath)
            IN  IF Len(infos) < 2 THEN << >>
                ELSE [k \in 1..(Len(infos) - 1) |->
                        Candidate("file", "delete", infos_sorted[k + 1].rel_path,
                                  "duplicate_file", 90,
                                  [duplicate_of |-> infos_sorted[1].rel_path,
                                   hash |-> digest])]
    IN  Flatten([k \in 1..Len(digests) |-> flagged(digests[k])])

InExperimentDir(rel_path) == \E part \in Range(Parts(rel_path)) : part \in EXPERIMENT_DIRS

\* the .py branch of _find_unreferenced_files for the file info of module
UnreferencedModule(info, module, python_index) ==
    IF /\ module \notin python_index.referenced_modules
       /\ ~(IF module \in DOMAIN python_index.metadata
            THEN python_index.metadata[module].is_script
            ELSE FALSE)
       /\ ~EndsWith(info.rel_path, "__init__.py")
    THEN << Candidate("file", "delete", info.rel_path, "unreferenced_python",
                      IF InExperimentDir(info.rel_path) THEN 75 ELSE 65,
                      [module |-> module]) >>
    ELSE << >>

\* the branch for every other file
UnreferencedFile(info, text_refs) ==
    IF info.rel_path \notin text_refs /\ Name(info.rel_path) \notin text_refs
    THEN << Candidate("file", "delete", info.rel_path, "unreferenced_file",
                      IF InExperimentDir(info.rel_path) THEN 60 ELSE 45,
                      [extension |-> info.extension]) >>
    ELSE << >>

_find_unreferenced_files(file_infos, text_refs, python_index) ==
    Flatten([k \in 1..Len(file_infos) |->
        IF file_infos[k].extension = ".py"
        THEN UnreferencedModule(file_infos[k], _module_name(file_infos[k].rel_path),
                                python_index)
        ELSE UnreferencedFile(file_infos[k], text_refs)])

_find_orphan_configs(file_infos, text_refs) ==
    LET flagged(info) ==
            IF /\ info.extension \in CONFIG_EXTENSIONS
               /\ info.rel_path \notin text_refs
               /\ Name(info.rel_path) \notin text_refs
            THEN << Candidate("file", "delete", info.rel_path, "orphan_config", 60, NoDetails) >>
            ELSE << >>
    IN  Flatten([k \in 1..Len(file_infos) |-> flagged(file_infos[k])])

\* x is the set of paths os.access(path, os.X_OK) holds for
_find_unused_scripts(file_infos, text_refs, x) ==
    LET flagged(info) ==
            IF /\ info.extension \in SCRIPT_EXTENSIONS
               /\ info.rel_path \notin text_refs
               /\ Name(info.rel_path) \notin text_refs
            THEN << Candidate("file", "delete", info.rel_path, "unused_script",
                              IF info.rel_path \in x THEN 40 ELSE 50,
                              [executable |-> info.rel_path \in x]) >>
            ELSE << >>
    IN  Flatten([k \in 1..Len(file_infos) |-> flagged(file_infos[k])])

_find_experiment_artifacts(file_infos) ==
    LET flagged(info) ==
            IF InExperimentDir(info.rel_path)
            THEN << Candidate("file", "delete", info.rel_path, "experiment_artifact", 70,
                              NoDetails) >>
            ELSE << >>
    IN  Flatten([k \in 1..Len(file_infos) |-> flagged(file_infos[k])])

\* analyzer.py's own _find_dead_code, the one analyze calls
_find_dead_code(python_index) ==
    LET of_module(module) ==
            LET meta == python_index.metadata[module]
                flagged(name) ==
                    IF name \in meta.used \/ name \in meta.exports THEN << >>
                    ELSE << Candidate("code", "manual_review", meta.rel_path, "dead_code",
                                      IF StartsWith(name, "_") THEN 40 ELSE 50,
                                      [symbol |-> name, line |-> meta.lines[name],
                                       module |-> module]) >>
            IN  Flatten([k \in 1..Len(meta.defs) |-> flagged(meta.defs[k])])
    IN  Flatten([k \in 1..Len(python_index.order) |-> of_module(python_index.order[k])])

-----------------------------------------------------------------------------
(* analyzer.py: analyze and write_plan *)

\* the sort key (c.kind, c.path, c.reason)
KeyLess(c1, c2) ==
    \/ StrLess(c1.kind, c2.kind)
    \/ (c1.kind = c2.kind /\ StrLess(c1.path, c2.path))
    \/ (c1.kind = c2.kind /\ c1.path = c2.path /\ StrLess(c1.reason, c2.reason))

_summarize_by_reason(candidates) ==
    [reason \in {candidates[k].reason : k \in 1..Len(candidates)} |->
        Cardinality({k \in 1..Len(candidates) : candidates[k].reason = reason})]

\* the generators in the order analyze calls them
Generate(f, x, file_infos, text_refs, python_index) ==
    _find_duplicate_files(f, file_infos)
      \o _find_unreferenced_files(file_infos, text_refs, python_index)
      \o _find_orphan_configs(file_infos, text_refs)
      \o _find_unused_scripts(file_infos, text_refs, x)
      \o _find_experiment_artifacts(file_infos)
      \o _find_dead_code(python_index)

\* the two indexes of the collected files
Indexed(f, x, file_infos) ==
    Generate(f, x, file_infos, _build_text_reference_index(f, file_infos),
             _build_python_index(f, file_infos))

\* the Plan analyze returns for the filtered, sorted candidates
MakePlan(filtered, total_files, confidence_threshold) ==
    [root |-> RootStr,
     generated_at |-> "2024-01-01T00:00:00+00:00Z",
     candidates |-> filtered,
     summary |-> [total_files |-> total_files,
                  candidates |-> Len(filtered),
                  by_reason |-> _summarize_by_reason(filtered),
                  confidence_threshold |-> confidence_threshold]]

Keeps_AboveOnly(c, confidence_threshold) == c.confidence > confidence_threshold

\* the filter of analyze: a candidate stays when its confidence reaches the
\* threshold
Keeps(c, confidence_threshold) == c.confidence >= confidence_threshold

\* the plan of the collected files
Analyzed(f, x, file_infos, confidence_threshold) ==
    MakePlan(StableSort(SelectSeq(Indexed(f, x, file_infos),
                                  LAMBDA c : Keeps(c, confidence_threshold)),
                        KeyLess),
             Len(file_infos),
             confidence_threshold)

\* analyze(root, include, exclude, confidence_threshold)
analyze(f, x, include, exclude, confidence_threshold) ==
    Analyzed(f, x, FileInfos(f, include, exclude), confidence_threshold)

-----------------------------------------------------------------------------
(* Bounds and inputs of the apply transaction *)

\* longest plan handed to apply_plan
MaxPlanLen == 2

\* seconds the clock may have advanced when apply_plan reads it
MaxClock == 0

\* root / rel_path
Abs(p) == RootStr \o "/" \o p

\* the path below the root that an absolute path names
Rel(a) ==
    IF StartsWith(a, RootStr \o "/") THEN SubSeq(a, Len(RootStr) + 2, Len(a)) ELSE a

Digits == "0123456789"

Digit(d) == Char(Digits, d + 1)

\* datetime.now().strftime("%Y%m%d_%H%M%S"), k seconds after the first reading
Timestamp(k) == "20240101_00000" \o Digit(k)

\* f"{x:.2f}" for a confidence kept in hundredths
Fmt2(n) == Digit(n \div 100) \o "." \o Digit((n \div 10) % 10) \o Digit(n % 10)

NoPlan == [candidates |-> <<>>, none |-> TRUE]

\* files the root may hold when apply_plan starts
ApplyPaths == {"d/it's b.txt", "m.py", "undo.sh", "CLOSURE.md"}

\* what a user's file holds before the tool touches it
UserText(p) == "user:" \o p

\* candidates a plan handed to apply_plan may list
ApplyCandidates ==
    { Candidate("file", "delete", "d/it's b.txt", "unreferenced_file", 45, NoDetails),
      Candidate("file", "delete", "d/it's b.txt", "duplicate_file", 90, NoDetails),
      Candidate("file", "delete", "m.py", "unreferenced_python", 65, NoDetails),
      Candidate("code", "manual_review", "m.py", "dead_code", 50, NoDetails),
      Candidate("file", "manual_review", "m.py", "unreferenced_python", 65, NoDetails),
      Candidate("file", "delete", "undo.sh", "unused_script", 50, NoDetails),
      Candidate("file", "delete", "CLOSURE.md", "unreferenced_file", 45, NoDetails) }

SeqsUpTo(S, n) == UNION {[1..k -> S] : k \in 0..n}

\* the plans of at most MaxPlanLen candidates out of C
PlansOver(C) ==
    { [root |-> RootStr, generated_at |-> "2024-01-01T00:00:00Z",
       candidates |-> cs, summary |-> NoDetails] : cs \in SeqsUpTo(C, MaxPlanLen) }

ApplyPlans == PlansOver(ApplyCandidates)

FileDelete(c) == c.kind = "file" /\ c.action = "delete"

-----------------------------------------------------------------------------
(* The file system *)

\* Path.exists()
Exists(p) == p \in DOMAIN fs \/ p \in dirs

\* Path.write_text
WriteText(f, p, text) == [q \in DOMAIN f \cup {p} |-> IF q = p THEN text ELSE f[q]]

\* os.replace / mv of a file
Rename(f, src, dst) ==
    [q \in (DOMAIN f \ {src}) \cup {dst} |-> IF q = dst THEN f[src] ELSE f[q]]

-----------------------------------------------------------------------------
(* apply_plan *)

TrashDirName(t) == "._trash_" \o t

UndoHeader(t) ==
    << "#!/bin/sh",
       "set -eu",
       "ROOT=\"$(cd \"$(dirname \"$0\")\" && pwd)\"",
       "TRASH_DIR=\"$ROOT/" \o TrashDirName(t) \o "\"",
       "if [ ! -d \"$TRASH_DIR\" ]; then",
       "  echo \"Trash directory missing: $TRASH_DIR\" >&2",
       "  exit 1",
       "fi" >>

MkdirLine(parent) == "mkdir -p \"$ROOT\"/" \o ShlexQuote(parent)

\* lines 143-145 without shlex.quote
MvLine_Unquoted(rel_path) == "mv \"$TRASH_DIR\"/" \o rel_path \o " \"$ROOT\"/" \o rel_path

\* lines 143-145
MvLine(rel_path) ==
    "mv \"$TRASH_DIR\"/" \o ShlexQuote(rel_path) \o " \"$ROOT\"/" \o ShlexQuote(rel_path)

MovedRow(rel_path, t, c) ==
    [old |-> Abs(rel_path),
     new |-> Abs(TrashDirName(t) \o "/" \o rel_path),
     reason |-> c.reason,
     confidence |-> Fmt2(c.confidence)]

ClosureRowLine(row) ==
    "- " \o row.old \o " -> " \o row.new \o " (reason=" \o row.reason
        \o ", confidence=" \o row.confidence \o ")"

_render_closure(t, threshold, rows) ==
    Join(<< "# CLOSURE",
            "",
            "Apply mode completed. Review this file before deleting the trash directory.",
            "",
            "Timestamp: " \o t,
            "Root: " \o RootStr,
            "Confidence threshold: " \o Fmt2(threshold),
            "Trash directory: " \o Abs(TrashDirName(t)),
            "Undo script: " \o Abs("undo.sh"),
            "",
            "## Moved files" >>
         \o (IF Len(rows) = 0 THEN << "- (none)" >>
             ELSE [k \in 1..Len(rows) |-> ClosureRowLine(rows[k])])
         \o << "" >>, "\n")

-----------------------------------------------------------------------------
(* apply_plan, step by step *)

\* the execute permission travels with a renamed file
MoveBit(x, src, dst) == (x \ {src, dst}) \cup (IF src \in x THEN {dst} ELSE {})

\* lines 110-126: read the clock, create the trash directory, start the records
ApplyStart(p, k, threshold) ==
    /\ plan' = p
    /\ ts' = Timestamp(k)
    /\ args' = [args EXCEPT !.confidence_threshold = threshold]
    /\ dirs' = dirs \cup {TrashDirName(Timestamp(k))}
    /\ undo_lines' = UndoHeader(Timestamp(k))
    /\ moved' = {}
    /\ moved_rows' = << >>
    /\ idx' = 1
    /\ fs0' = fs
    /\ moveLog' = << >>
    /\ calls' = Append(calls, "apply_plan")
    /\ pc' = "loop"
    /\ UNCHANGED <<fs, xbit, sh, status, written>>

\* apply_plan(root, plan, confidence_threshold) called with any plan
ApplyBegin ==
    /\ pc = "idle"
    /\ \E p \in ApplyPlans, k \in 0..MaxClock : ApplyStart(p, k, 40)

\* line 129 with the test of the action left out
NotFileDelete_KindOnly(candidate) == candidate.kind /= "file"

\* line 129
NotFileDelete(candidate) == candidate.kind /= "file" \/ candidate.action /= "delete"

\* line 131
AlreadyMoved(candidate) == candidate.path \in moved

\* line 135 left out: the source is taken to exist
SrcMissing_Unchecked(rel_path) == FALSE

\* line 135
SrcMissing(rel_path) == ~Exists(rel_path)

\* lines 128-154: one iteration of the loop over plan.candidates; os.replace
\* raises FileNotFoundError when its source is missing, which ends apply_plan
ApplyCandidate ==
    /\ pc = "loop"
    /\ idx <= Len(plan.candidates)
    /\ idx' = idx + 1
    /\ LET candidate == plan.candidates[idx]
           rel_path == candidate.path
           dst == TrashDirName(ts) \o "/" \o rel_path
           parent == Parent(rel_path)
       IN  IF NotFileDelete(candidate) \/ AlreadyMoved(candidate) \/ SrcMissing(rel_path)
           THEN UNCHANGED <<fs, dirs, xbit, undo_lines, moved, moved_rows, moveLog,
                            written, pc, status>>
           ELSE IF rel_path \notin DOMAIN fs
           THEN /\ dirs' = dirs \cup DirChain(Parent(dst))
                /\ pc' = "raised"
                /\ status' = 1
                /\ UNCHANGED <<fs, xbit, undo_lines, moved, moved_rows, moveLog, written>>
           ELSE /\ dirs' = dirs \cup DirChain(Parent(dst))
                /\ fs' = Rename(fs, rel_path, dst)
                /\ xbit' = MoveBit(xbit, rel_path, dst)
                /\ undo_lines' =
                      undo_lines
                        \o (IF parent /= "." THEN << MkdirLine(parent) >> ELSE << >>)
                        \o << MvLine(rel_path) >>
                /\ moved' = moved \cup {rel_path}
                /\ moved_rows' = Append(moved_rows, MovedRow(rel_path, ts, candidate))
                /\ moveLog' = Append(moveLog, rel_path)
                /\ written' = written \cup {dst}
                /\ UNCHANGED <<pc, status>>
    /\ UNCHANGED <<args, plan, ts, sh, calls, fs0>>

undo_contents == Join(undo_lines, "\n") \o "\n"

\* lines 156-159: the undo script at the root, chmod 0o700
ApplyWriteRootUndo ==
    /\ pc = "loop"
    /\ idx > Len(plan.candidates)
    /\ fs' = WriteText(fs, "undo.sh", undo_contents)
    /\ xbit' = xbit \cup {"undo.sh"}
    /\ written' = written \cup {"undo.sh"}
    /\ pc' = "trash_undo"
    /\ UNCHANGED <<dirs, args, plan, locals, sh, status, calls, fs0, moveLog>>

\* lines 160-162: the copy of the undo script inside the trash directory
ApplyWriteTrashUndo ==
    /\ pc = "trash_undo"
    /\ fs' = WriteText(fs, TrashDirName(ts) \o "/undo.sh", undo_contents)
    /\ xbit' = xbit \cup {TrashDirName(ts) \o "/undo.sh"}
    /\ written' = written \cup {TrashDirName(ts) \o "/undo.sh"}
    /\ pc' = "closure"
    /\ UNCHANGED <<dirs, args, plan, locals, sh, status, calls, fs0, moveLog>>

\* lines 164-174: the closure report
ApplyWriteClosure ==
    /\ pc = "closure"
    /\ fs' = WriteText(fs, "CLOSURE.md",
                       _render_closure(ts, args.confidence_threshold, moved_rows))
    /\ written' = written \cup {"CLOSURE.md"}
    /\ pc' = "applied"
    /\ UNCHANGED <<dirs, xbit, args, plan, locals, sh, status, calls, fs0, moveLog>>

-----------------------------------------------------------------------------
(* sh undo.sh *)

RootLine == "ROOT=\"$(cd \"$(dirname \"$0\")\" && pwd)\""

IfLine == "if [ ! -d \"$TRASH_DIR\" ]; then"

SetVar(env, name, value) ==
    [v \in DOMAIN env \cup {name} |-> IF v = name THEN value ELSE env[v]]

\* the index of the first "fi" after line i
FiAfter(lines, i) == CHOOSE j \in (i + 1)..Len(lines) :
                        /\ lines[j] = "fi"
                        /\ \A k \in (i + 1)..(j - 1) : lines[k] /= "fi"

RECURSIVE ShRun(_)
\* the shell running the script under `set -eu`: the state after the last line
\* it executes; st.status is 0 at the end of the script and 1 where it stops
ShRun(st) ==
    IF st.i > Len(st.lines) THEN [st EXCEPT !.status = 0]
    ELSE LET line == st.lines[st.i]
             next == [st EXCEPT !.i = st.i + 1]
             words == ShWords(line, st.env)
         IN
         IF line = "" \/ StartsWith(line, "#") \/ line = "set -eu" THEN ShRun(next)
         ELSE IF line = RootLine THEN
            ShRun([next EXCEPT !.env = SetVar(st.env, "ROOT", RootStr)])
         ELSE IF StartsWith(line, "TRASH_DIR=") THEN
            ShRun([next EXCEPT !.env =
                     SetVar(st.env, "TRASH_DIR",
                            SubSeq(words[1], Len("TRASH_DIR=") + 1, Len(words[1])))])
         ELSE IF line = IfLine THEN
            IF Rel(st.env["TRASH_DIR"]) \in st.dirs
            THEN ShRun([st EXCEPT !.i = FiAfter(st.lines, st.i) + 1])
            ELSE [st EXCEPT !.status = 1]
         ELSE IF words[1] = "mkdir" /\ words[2] = "-p" THEN
            ShRun([next EXCEPT !.dirs = st.dirs \cup DirChain(Rel(words[3]))])
         ELSE IF words[1] = "mv" THEN
            IF Rel(words[2]) \in DOMAIN st.fs
            THEN ShRun([next EXCEPT
                          !.fs = Rename(st.fs, Rel(words[2]), Rel(words[3])),
                          !.x = MoveBit(st.x, Rel(words[2]), Rel(words[3]))])
            ELSE [st EXCEPT !.status = 1]
         ELSE [st EXCEPT !.status = 1]

\* the user runs the undo script that apply_plan left at the root
RunUndo ==
    /\ pc = "applied"
    /\ LET end == ShRun([lines |-> Split(fs["undo.sh"], "\n"), i |-> 1,
                         env |-> << >>, fs |-> fs, dirs |-> dirs, x |-> xbit,
                         status |-> -1])
       IN  /\ fs' = end.fs
           /\ dirs' = end.dirs
           /\ xbit' = end.x
           /\ status' = end.status
           /\ sh' = [i |-> end.i, env |-> end.env]
    /\ pc' = "undone"
    /\ UNCHANGED <<args, plan, locals, calls, written, fs0, moveLog>>

-----------------------------------------------------------------------------
(* The apply transaction on a root holding any of ApplyPaths *)

InitFiles(S) == [p \in S |-> UserText(p)]

InitDirs(S) == UNION {DirChain(Parent(p)) : p \in S}

NoShell == [i |-> 0, env |-> << >>]

\* nothing has been called yet
Fresh ==
    /\ plan = NoPlan
    /\ ts = ""
    /\ idx = 0
    /\ moved = {}
    /\ moved_rows = << >>
    /\ undo_lines = << >>
    /\ sh = NoShell
    /\ status = -1     \* still running
    /\ calls = << >>
    /\ written = {}
    /\ fs0 = fs
    /\ moveLog = << >>

Init ==
    /\ \E S \in SUBSET ApplyPaths : fs = InitFiles(S) /\ dirs = InitDirs(S)
    /\ xbit = {}
    /\ pc = "idle"
    /\ args = [confidence_threshold |-> 40]
    /\ Fresh

Next ==
    \/ ApplyBegin
    \/ ApplyCandidate
    \/ ApplyWriteRootUndo
    \/ ApplyWriteTrashUndo
    \/ ApplyWriteClosure
    \/ RunUndo

Spec == Init /\ [][Next]_vars

-----------------------------------------------------------------------------
(* The apply transaction on a root and a plan that name no file the tool
   writes itself *)

MovePaths == {"d/it's b.txt", "m.py"}

MovePlans == PlansOver({c \in ApplyCandidates : c.path \in MovePaths})

ApplyBeginMoves ==
    /\ pc = "idle"
    /\ \E p \in MovePlans, k \in 0..MaxClock : ApplyStart(p, k, 40)

InitMoves ==
    /\ \E S \in SUBSET MovePaths : fs = InitFiles(S) /\ dirs = InitDirs(S)
    /\ xbit = {}
    /\ pc = "idle"
    /\ args = [confidence_threshold |-> 40]
    /\ Fresh

NextMoves ==
    \/ ApplyBeginMoves
    \/ ApplyCandidate
    \/ ApplyWriteRootUndo
    \/ ApplyWriteTrashUndo
    \/ ApplyWriteClosure
    \/ RunUndo

SpecMoves == InitMoves /\ [][NextMoves]_vars

-----------------------------------------------------------------------------
(* Library calls: analyze and write_plan *)

\* most files a scanned tree holds
MaxFiles == 3

\* most library calls of one session
MaxCalls == 4

\* the trees that hold at most n of the paths of slots, each with one of
\* the texts its slot offers
Trees(slots, n) ==
    UNION {{f \in [S -> UNION {slots[p] : p \in S}] : \A p \in S : f[p] \in slots[p]} :
              S \in {T \in SUBSET DOMAIN slots : Cardinality(T) <= n}}

\* the text of the three plan files, reduced to the candidates they list
\* (the rendering of a plan is outside the analysis engine)
PlanText(p, format) ==
    format \o ":"
      \o Join([k \in 1..Len(p.candidates) |->
                 "[" \o p.candidates[k].kind \o "] " \o p.candidates[k].path
                     \o " (" \o p.candidates[k].reason \o ")"], "\n")

PlanFile_InPlanDir(format) == "plan/deletion_plan." \o format

\* the path under the root of the plan record of a format
PlanFile(format) == "deletion_plan." \o format

\* analyze(root, include, exclude, confidence_threshold), which has no
\* dead_code parameter: a call that passes one raises TypeError
CallAnalyze ==
    /\ pc \in {"idle", "planned", "applied"}
    /\ Len(calls) < MaxCalls
    /\ calls' = Append(calls, "analyze")
    /\ fs0' = fs
    /\ IF args.dead_code /= "absent"
       THEN /\ pc' = "raised"
            /\ status' = 1
            /\ UNCHANGED plan
       ELSE /\ plan' = analyze(fs, xbit, args.include, args.exclude,
                               args.confidence_threshold)
            /\ pc' = "analyzed"
            /\ UNCHANGED status
    /\ UNCHANGED <<fs, dirs, xbit, args, locals, sh, written, moveLog>>

\* write_plan(root, plan)
CallWritePlan ==
    /\ pc = "analyzed"
    /\ Len(calls) < MaxCalls
    /\ calls' = Append(calls, "write_plan")
    /\ fs' = WriteText(WriteText(WriteText(fs,
                PlanFile("json"), PlanText(plan, "json")),
                PlanFile("md"), PlanText(plan, "md")),
                PlanFile("diff"), PlanText(plan, "diff"))
    /\ written' = written \cup {PlanFile("json"), PlanFile("md"), PlanFile("diff")}
    /\ pc' = "planned"
    /\ UNCHANGED <<dirs, xbit, args, plan, locals, sh, status, fs0, moveLog>>

\* what the files of the analysed trees may hold
AnalysisSlots ==
    [p \in {"a.txt", "b.txt", "aa/c.txt", "main.py", "util.py", "pkg/__init__.py",
            "pkg/a.py", "pkg/b.py", "pkg/sub/c.py"} |->
        CASE p = "a.txt" -> {"same", ""}
          [] p = "b.txt" -> {"same", ""}
          [] p = "aa/c.txt" -> {"same"}
          [] p = "main.py" -> {SrcImportUtil, SrcImportPkgB, SrcFromPkgImportB, SrcDeadCode}
          [] p = "util.py" -> {SrcHelper}
          [] p = "pkg/__init__.py" -> {"", SrcFromDotImportB, SrcFromDotBImport}
          [] p = "pkg/a.py" -> {SrcFromDotImportB}
          [] p = "pkg/b.py" -> {SrcHelper, SrcPrivate}
          [] p = "pkg/sub/c.py" -> {SrcFromDotDotImportB}]

\* how a caller may call analyze: dead_code is "absent" when the keyword is
\* not passed
AnalyzeArgs ==
    [include : {<< >>}, exclude : {<< >>}, confidence_threshold : {0, 50},
     dead_code : {"absent", "False", "True"}]

InitAnalyze ==
    /\ \E f \in Trees(AnalysisSlots, MaxFiles) : fs = f /\ dirs = InitDirs(DOMAIN f)
    /\ xbit = {}
    /\ pc = "idle"
    /\ args \in AnalyzeArgs
    /\ Fresh

\* one analysis of the tree, and the writing of its plan
NextAnalyze ==
    \/ (pc = "idle" /\ CallAnalyze)
    \/ CallWritePlan

SpecAnalyze == InitAnalyze /\ [][NextAnalyze]_vars

\* the files of a project root: its readme and build file, a package in the
\* src layout, and a note that mentions nothing but itself
LayoutSlots ==
    [p \in {"README.md", "pyproject.toml", "src/prune/__init__.py", "src/prune/a.py",
            "src/prune/b.py", "notes.md"} |->
        CASE p = "README.md" -> {"readme"}
          [] p = "pyproject.toml" -> {"[project]\nname = \"x\"\n"}
          [] p = "src/prune/__init__.py" -> {""}
          [] p = "src/prune/a.py" -> {SrcHelper}
          [] p = "src/prune/b.py" -> {SrcFromPruneImportA}
          [] p = "notes.md" -> {"see notes.md"}]

\* analyze called on a project root, with or without an include list
InitLayout ==
    /\ \E f \in Trees(LayoutSlots, MaxFiles) : fs = f /\ dirs = InitDirs(DOMAIN f)
    /\ xbit = {}
    /\ pc = "idle"
    /\ args \in [include : {<< >>, << "README.md", "pyproject.toml" >>},
                 exclude : {<< >>}, confidence_threshold : {0, 50},
                 dead_code : {"absent"}]
    /\ Fresh

SpecLayout == InitLayout /\ [][NextAnalyze]_vars

-----------------------------------------------------------------------------
(* A session of library calls on one root: analyze, write_plan, apply_plan *)

\* apply_plan(root, plan, confidence_threshold) called with the plan held
SessionApply ==
    /\ pc \in {"analyzed", "planned"}
    /\ Len(calls) < MaxCalls
    /\ \E k \in 0..MaxClock : ApplyStart(plan, k, args.confidence_threshold)

SessionSlots ==
    [p \in {"a.txt", "b.txt", "notes.md", "run.sh"} |->
        CASE p = "a.txt" -> {"same"}
          [] p = "b.txt" -> {"same"}
          [] p = "notes.md" -> {"see a.txt"}
          [] p = "run.sh" -> {"echo run\n"}]

InitSession ==
    /\ \E f \in Trees(SessionSlots, MaxFiles) : fs = f /\ dirs = InitDirs(DOMAIN f)
    /\ xbit \in SUBSET {p \in DOMAIN fs : Suffix(p) = ".sh"}
    /\ pc = "idle"
    /\ args \in [include : {<< >>}, exclude : {<< >>}, confidence_threshold : {0, 40},
                 dead_code : {"absent"}]
    /\ Fresh

NextSession ==
    \/ CallAnalyze
    \/ CallWritePlan
    \/ SessionApply
    \/ ApplyCandidate
    \/ ApplyWriteRootUndo
    \/ ApplyWriteTrashUndo
    \/ ApplyWriteClosure

SpecSession == InitSession /\ [][NextSession]_vars

-----------------------------------------------------------------------------
(* cli.py: main *)

\* line 70 with --one-run taken as a confirmation
ConfirmRefuses_UnlessOneRun(a) == a.apply /\ ~a.yes /\ ~a.one_run

\* line 70
ConfirmRefuses(a) == a.apply /\ ~a.yes

\* the default of --confidence-threshold, None
NoThreshold == -1

\* lines 72-74
Threshold(a) ==
    IF a.confidence_threshold /= NoThreshold THEN a.confidence_threshold
    ELSE IF a.one_run THEN 65 ELSE 40

\* lines 76-88
Excludes(a) ==
    a.exclude \o (IF a.one_run
                  THEN << "tests/**", "docs/**", "examples/**", ".github/**",
                          ".devcontainer/**", "**/*.md", "**/*.rst" >>
                  ELSE << >>)

Exit(code) ==
    /\ status' = code
    /\ pc' = "exited"

\* line 61: argparse refuses --dry-run together with --apply with status 2
MainParseArgs ==
    /\ pc = "main"
    /\ IF args.dry_run /\ args.apply THEN Exit(2) ELSE pc' = "root" /\ UNCHANGED status
    /\ UNCHANGED <<fs, dirs, xbit, args, plan, locals, sh, calls, written, fs0, moveLog>>

\* lines 62-64
MainCheckRoot ==
    /\ pc = "root"
    /\ IF ~args.path_is_dir THEN Exit(1) ELSE pc' = "confirm" /\ UNCHANGED status
    /\ UNCHANGED <<fs, dirs, xbit, args, plan, locals, sh, calls, written, fs0, moveLog>>

\* lines 66-71
MainConfirm ==
    /\ pc = "confirm"
    /\ IF ConfirmRefuses(args) THEN Exit(1) ELSE pc' = "analyze" /\ UNCHANGED status
    /\ UNCHANGED <<fs, dirs, xbit, args, plan, locals, sh, calls, written, fs0, moveLog>>

\* lines 72-98: main passes dead_code= to analyze, whose signature
\* (analyzer.py:47-52) does not take it; the TypeError ends the run
MainAnalyze ==
    /\ pc = "analyze"
    /\ args' = [args EXCEPT !.confidence_threshold = Threshold(args),
                            !.exclude = Excludes(args)]
    /\ calls' = Append(calls, "analyze")
    /\ Exit(1)
    /\ UNCHANGED <<fs, dirs, xbit, plan, locals, sh, written, fs0, moveLog>>

CliArgs ==
    [apply : BOOLEAN, dry_run : BOOLEAN, yes : BOOLEAN, one_run : BOOLEAN,
     experimental_dead_code : BOOLEAN, confidence_threshold : {NoThreshold, 0},
     path_is_dir : BOOLEAN, include : {<< >>}, exclude : {<< >>}]

InitCli ==
    /\ args \in CliArgs
    /\ \E S \in SUBSET {"undo.sh", "m.py"} :
          fs = (IF args.path_is_dir THEN InitFiles(S) ELSE << >>)
    /\ dirs = {}
    /\ xbit = {}
    /\ pc = "main"
    /\ Fresh

NextCli ==
    \/ MainParseArgs
    \/ MainCheckRoot
    \/ MainConfirm
    \/ MainAnalyze

\* a started run of main goes on until it exits
SpecCli == InitCli /\ [][NextCli]_vars /\ WF_vars(NextCli)

-----------------------------------------------------------------------------
(* Properties of the apply transaction (specifications Spec and SpecMoves) *)

\* where apply_plan puts the file it moves from rel_path
TrashPath(p) == TrashDirName(ts) \o "/" \o p

Applying == pc \in {"loop", "trash_undo", "closure", "applied", "raised"}

IsMvLine(l) == StartsWith(l, "mv ")

IsRowLine(l) == StartsWith(l, "- /")

\* the first candidate of the plan that apply_plan acts on for the path p
FirstFileDelete(p) ==
    plan.candidates[CHOOSE k \in 1..Len(plan.candidates) :
                        /\ plan.candidates[k].path = p
                        /\ FileDelete(plan.candidates[k])
                        /\ \A j \in 1..(k - 1) :
                              ~(plan.candidates[j].path = p /\ FileDelete(plan.candidates[j]))]

\* C1: once apply_plan has completed and the undo script at the root has been
\* run, every file apply moved is back at its original relative path with
\* the content it had before apply, and is gone from the trash directory.
C1_RoundTripRestores ==
    pc = "undone" =>
        \A p \in Range(moveLog) :
            /\ p \in DOMAIN fs
            /\ fs[p] = fs0[p]
            /\ TrashPath(p) \notin DOMAIN fs

\* C2: at every point of apply_plan, and after it has written both undo
\* scripts and the closure report, every file it has moved is in the trash
\* directory at its original relative path with unchanged content.
C2_MovedFilesKeptInTrash ==
    Applying =>
        \A p \in Range(moveLog) :
            /\ TrashPath(p) \in DOMAIN fs
            /\ fs[TrashPath(p)] = fs0[p]

\* C4: apply moves a path only if the plan has a file/delete candidate for
\* it; a path the plan lists only under kind code or action manual_review is
\* never moved and stays unchanged under the root.
C4_MovesOnlyFileDelete ==
    /\ \A p \in Range(moveLog) :
          \E k \in 1..Len(plan.candidates) :
              plan.candidates[k].path = p /\ FileDelete(plan.candidates[k])
    /\ \A k \in 1..Len(plan.candidates) :
          LET p == plan.candidates[k].path IN
          (\A j \in 1..Len(plan.candidates) :
                plan.candidates[j].path = p => ~FileDelete(plan.candidates[j]))
          => /\ (p \in DOMAIN fs) = (p \in DOMAIN fs0)
             /\ p \in DOMAIN fs => fs[p] = fs0[p]
             /\ TrashPath(p) \notin DOMAIN fs

\* C4 witness: apply has finished a plan that lists m.py only for manual
\* review, m.py exists, and another file of the plan was moved.
C4_Witness ==
    /\ pc = "applied"
    /\ "m.py" \in DOMAIN fs0
    /\ \E k \in 1..Len(plan.candidates) : plan.candidates[k].kind = "code"
    /\ \A k \in 1..Len(plan.candidates) :
          plan.candidates[k].path = "m.py" => ~FileDelete(plan.candidates[k])
    /\ Len(moveLog) = 1

\* C5: a file/delete candidate whose source is missing at apply time is
\* skipped without an error, gets no undo line and no closure row, and the
\* remaining candidates are still moved and the three reports written.
C5_StalePlanSkipped ==
    /\ pc /= "raised"
    /\ pc = "applied" =>
          /\ \A k \in 1..Len(plan.candidates) :
                LET c == plan.candidates[k] IN
                FileDelete(c) =>
                    IF c.path \in DOMAIN fs0
                    THEN c.path \in Range(moveLog)
                    ELSE /\ c.path \notin Range(moveLog)
                         /\ \A l \in Range(Split(fs["undo.sh"], "\n")) :
                                ~Contains(l, ShlexQuote(c.path))
                         /\ \A l \in Range(Split(fs["CLOSURE.md"], "\n")) :
                                ~Contains(l, Abs(c.path) \o " ")
          /\ fs["undo.sh"] = undo_contents
          /\ fs[TrashPath("undo.sh")] = undo_contents
          /\ StartsWith(fs["CLOSURE.md"], "# CLOSURE\n")

\* C5 witness: apply has finished a plan whose first candidate was stale and
\* whose second candidate was moved.
C5_Witness ==
    /\ pc = "applied"
    /\ Len(plan.candidates) = 2
    /\ FileDelete(plan.candidates[1])
    /\ plan.candidates[1].path \notin DOMAIN fs0
    /\ moveLog = << plan.candidates[2].path >>

\* C6: when apply_plan completes, the mv lines of the undo script and the
\* rows of the closure report correspond one to one, in move order, with the
\* files actually moved, and no path is moved or recorded twice.
C6_RecordsMatchMoves ==
    pc = "applied" =>
        LET mvs == SelectSeq(Split(fs["undo.sh"], "\n"), IsMvLine)
            rows == SelectSeq(Split(fs["CLOSURE.md"], "\n"), IsRowLine)
            env == [ROOT |-> RootStr, TRASH_DIR |-> Abs(TrashDirName(ts))]
        IN  /\ Len(mvs) = Len(moveLog)
            /\ Len(rows) = Len(moveLog)
            /\ Len(moved_rows) = Len(moveLog)
            /\ moved = Range(moveLog)
            /\ Cardinality(Range(moveLog)) = Len(moveLog)
            /\ \A k \in 1..Len(moveLog) :
                  LET p == moveLog[k]
                      c == FirstFileDelete(p)
                  IN  /\ ShWords(mvs[k], env) = << "mv", Abs(TrashPath(p)), Abs(p) >>
                      /\ rows[k] = "- " \o Abs(p) \o " -> " \o Abs(TrashPath(p))
                                     \o " (reason=" \o c.reason
                                     \o ", confidence=0." \o Digit(c.confidence \div 10)
                                     \o Digit(c.confidence % 10) \o ")"

\* C6 witness: apply has finished a plan that lists one existing path under
\* two reasons; it was moved once.
C6_Witness ==
    /\ pc = "applied"
    /\ Len(plan.candidates) = 2
    /\ plan.candidates[1].path = plan.candidates[2].path
    /\ plan.candidates[1].reason /= plan.candidates[2].reason
    /\ FileDelete(plan.candidates[1]) /\ FileDelete(plan.candidates[2])
    /\ moveLog = << plan.candidates[1].path >>
    /\ plan.candidates[1].path = "d/it's b.txt"

-----------------------------------------------------------------------------
(* Properties of main (specification SpecCli) *)

\* C3: a run with --apply and without --yes ends with a non-zero exit status
\* and moves nothing; it is refused before any analysis, plan writing, trash
\* creation or move.
C3_ConfirmationGate ==
    /\ [](args.apply /\ ~args.yes =>
            /\ fs = fs0
            /\ dirs = {}
            /\ moveLog = << >>
            /\ written = {}
            /\ calls = << >>
            /\ (pc = "exited" => status > 0))
    /\ <>(pc = "exited")

\* C3 witness: the confirmation test itself has refused a run on a valid root
\* that holds files.
C3_Witness ==
    /\ pc = "exited"
    /\ args.apply /\ ~args.yes /\ ~args.dry_run /\ args.path_is_dir
    /\ args.one_run
    /\ status = 1
    /\ DOMAIN fs = {"undo.sh", "m.py"}

-----------------------------------------------------------------------------
(* Properties of a session of library calls (specification SpecSession) *)

\* no call is running: the next analysis may start here
BetweenCalls == pc \in {"idle", "analyzed", "planned", "applied"}

\* C7: after any sequence of analyze, write_plan and apply_plan calls on the
\* root, the file collector run with no user excludes returns none of the
\* files the tool has written (plan files, trash content, undo.sh,
\* CLOSURE.md), and no plan has a candidate for one of them.
C7_ArtifactsNeverCollected ==
    /\ BetweenCalls =>
          \A p \in Range(_collect_files(fs, << >>, << >>)) : p \notin written
    /\ pc = "analyzed" =>
          \A k \in 1..Len(plan.candidates) : plan.candidates[k].path \notin written

-----------------------------------------------------------------------------
(* Properties of analyze (specification SpecAnalyze) *)

\* the files the analysis that returned the plan had collected
Collected == Range(_collect_files(fs0, args.include, args.exclude))

\* the files of F with the bytes of p
SameContent(F, p) == {q \in F : fs0[q] = fs0[p]}

\* the member of G with the shortest path, the lexically first of those
Shortest(G) ==
    CHOOSE r \in G : \A q \in G \ {r} :
        Len(r) < Len(q) \/ (Len(r) = Len(q) /\ StrLess(r, q))

DuplicateCandidates(p) ==
    {k \in 1..Len(plan.candidates) :
        plan.candidates[k].path = p /\ plan.candidates[k].reason = "duplicate_file"}

\* the group G has one retained file r, and every other file of it has one
\* duplicate_file candidate at 0.9 that names r
GroupFlagged(G, r) ==
    /\ DuplicateCandidates(r) = {}
    /\ \A q \in G \ {r} :
          /\ Cardinality(DuplicateCandidates(q)) = 1
          /\ \A k \in DuplicateCandidates(q) :
                /\ plan.candidates[k].confidence = 90
                /\ plan.candidates[k].details.duplicate_of = r

\* every group of two or more files of F is flagged around its shortest path
GroupsFlagged(F) ==
    \A G \in {SameContent(F, p) : p \in F} :
        Cardinality(G) >= 2 => GroupFlagged(G, Shortest(G))

\* C8 as stated: every group of two or more collected files with identical
\* bytes has exactly one retained file, the one with the shortest relative
\* path (lexical tie-break), and every other file of the group is flagged
\* duplicate_file with confidence 0.9 and duplicate_of naming the retained one.
C8_AllGroupsFlagged == pc = "analyzed" => GroupsFlagged(Collected)

\* C8 amended: the same for every group of two or more collected non-empty
\* files; an empty file is never flagged duplicate_file.
C8_NonEmptyGroupsFlagged ==
    pc = "analyzed" =>
        /\ GroupsFlagged({p \in Collected : fs0[p] /= ""})
        /\ \A p \in DOMAIN fs0 : fs0[p] = "" => DuplicateCandidates(p) = {}

\* C8 witness: b.txt and aa/c.txt hold the same bytes; the longer path
\* aa/c.txt, lexically the first, was flagged as a duplicate of b.txt.
C8_Witness ==
    /\ pc = "analyzed"
    /\ DOMAIN fs0 = {"b.txt", "aa/c.txt"}
    /\ fs0["b.txt"] = fs0["aa/c.txt"]
    /\ DuplicateCandidates("aa/c.txt") /= {}
    /\ DuplicateCandidates("b.txt") = {}

\* the dotted name Python gives the module of a file below the root
PyModule(p) ==
    LET parts == Parts(SubSeq(p, 1, Len(p) - Len(".py")))
    IN  IF parts[Len(parts)] = "__init__"
        THEN Join(SubSeq(parts, 1, Len(parts) - 1), ".")
        ELSE Join(parts, ".")

\* the package (__package__) of the module of a file: the module itself for
\* an __init__.py, the directory's package otherwise, "" at the top level
PyPackage(p) ==
    IF Parent(p) = "." THEN "" ELSE Join(Parts(Parent(p)), ".")

\* a dotted name and the packages above it
Prefixes(name) ==
    LET parts == Split(name, ".")
    IN  {Join(SubSeq(parts, 1, n), ".") : n \in 1..Len(parts)}

\* the modules Python imports for one import statement of the file p
PyImports(p, node) ==
    IF node.type = "import" THEN UNION {Prefixes(name) : name \in Range(node.names)}
    ELSE IF node.level = 0 THEN
        Prefixes(node.module) \cup {node.module \o "." \o name : name \in Range(node.names)}
    ELSE LET package == IF PyPackage(p) = "" THEN << >> ELSE Split(PyPackage(p), ".")
             base == SubSeq(package, 1, Len(package) - (node.level - 1))
             target == Join(base \o (IF node.module = "" THEN << >>
                                     ELSE Split(node.module, ".")), ".")
         IN  IF node.level - 1 >= Len(package) THEN {}
             ELSE Prefixes(target) \cup {target \o "." \o name : name \in Range(node.names)}

\* the scanned file q imports the module of the file p
ImportedBy(p, q) ==
    /\ Suffix(q) = ".py"
    /\ Ast(fs0[q]).ok
    /\ \E k \in 1..Len(Ast(fs0[q]).imports) : PyModule(p) \in PyImports(q, Ast(fs0[q]).imports[k])

UnreferencedPython(p) ==
    \E k \in 1..Len(plan.candidates) :
        plan.candidates[k].path = p /\ plan.candidates[k].reason = "unreferenced_python"

\* C9: a scanned .py file that another scanned module imports (absolute
\* import, from-import, or relative import of any level, also one written in
\* a package's __init__ file) gets no unreferenced_python candidate.
C9_ImportedNeverUnreferenced ==
    pc = "analyzed" =>
        \A p \in Collected :
            (Suffix(p) = ".py" /\ \E q \in Collected \ {p} : ImportedBy(p, q))
                => ~UnreferencedPython(p)

\* C10: when the dead-code option is not enabled (not passed, or passed as
\* False), the plan analyze returns has no candidate with reason dead_code.
C10_DeadCodeOptIn ==
    (pc = "analyzed" /\ args.dead_code \in {"absent", "False"}) =>
        \A k \in 1..Len(plan.candidates) : plan.candidates[k].reason /= "dead_code"

\* the candidates of the plan held whose reason is not dead_code: what a
\* plan with the dead-code generator disabled would list
CountWithoutDeadCode ==
    Len(SelectSeq(plan.candidates, LAMBDA c : c.reason /= "dead_code"))

\* C11: a call of analyze that passes the dead-code option (enabled or
\* disabled) returns a plan, and the plan of a call with the option enabled
\* has at least as many candidates as the plan without dead-code candidates
\* of the same tree.
C11_DeadCodeNeverDecreases ==
    (calls /= << >> /\ args.dead_code \in {"False", "True"}) =>
        /\ pc \in {"analyzed", "planned"}
        /\ args.dead_code = "True" => Len(plan.candidates) >= CountWithoutDeadCode

\* what the generators make of the tree analysed, before the filter
Generated == Indexed(fs0, xbit, FileInfos(fs0, args.include, args.exclude))

\* how often the candidate c occurs in seq
Occurrences(seq, c) == Cardinality({k \in 1..Len(seq) : seq[k] = c})

\* kept holds every candidate of gen at or above the threshold t as often as
\* gen does, and no other candidate
ExactlyThoseAtOrAbove(gen, kept, t) ==
    \A c \in Range(gen) \cup Range(kept) :
        Occurrences(kept, c) = IF c.confidence >= t THEN Occurrences(gen, c) ELSE 0

\* some path of seq has candidates of two different reasons
TwoReasonsOnePath(seq) ==
    \E i, j \in 1..Len(seq) : seq[i].path = seq[j].path /\ seq[i].reason /= seq[j].reason

\* C12: the candidates of the plan are exactly the candidates the generators
\* produce whose confidence is at or above the threshold, each as often as it
\* was produced (one per reason for a file several generators flag), and
\* summary.candidates is the length of that list.
C12_ThresholdFilter ==
    pc \in {"analyzed", "planned"} =>
        /\ ExactlyThoseAtOrAbove(Generated, plan.candidates, args.confidence_threshold)
        /\ plan.summary.candidates = Len(plan.candidates)

\* a plan at threshold 0.5 that dropped a candidate, kept one at exactly 0.5
\* and lists one file under two reasons
C12_Witness ==
    /\ pc = "analyzed"
    /\ args.confidence_threshold = 50
    /\ Len(plan.candidates) < Len(Generated)
    /\ \E k \in 1..Len(plan.candidates) : plan.candidates[k].confidence = 50
    /\ TwoReasonsOnePath(plan.candidates)

\* the candidate a comes before b in the order (reason, path)
ReasonPathLess(a, b) ==
    \/ StrLess(a.reason, b.reason)
    \/ a.reason = b.reason /\ StrLess(a.path, b.path)

\* C13: the candidates of a plan are ordered by reason first and by path
\* second: no candidate is followed by one whose (reason, path) is smaller.
C13_OrderedByReasonThenPath ==
    pc \in {"analyzed", "planned"} =>
        \A k \in 1..(Len(plan.candidates) - 1) :
            ~ReasonPathLess(plan.candidates[k + 1], plan.candidates[k])

\* the plan held lists the path p
IsCandidate(p) == \E k \in 1..Len(plan.candidates) : plan.candidates[k].path = p

\* C14: README.md and pyproject.toml at the root are never the path of a
\* candidate, whatever the include list and the threshold.
C14_CriticalFilesNeverCandidates ==
    pc \in {"analyzed", "planned"} =>
        ~IsCandidate("README.md") /\ ~IsCandidate("pyproject.toml")

\* C15: the module identifier of a file under the top-level src directory
\* omits src (src/prune/analyzer.py is prune.analyzer), and src/prune/a.py,
\* which src/prune/b.py imports with "from prune import a", gets no
\* unreferenced_python candidate.
C15_SrcLayoutModules ==
    (/\ pc \in {"analyzed", "planned"}
     /\ {"src/prune/a.py", "src/prune/b.py"} \subseteq Collected)
        => /\ _module_name("src/prune/analyzer.py") = "prune.analyzer"
           /\ _module_name("src/prune/a.py") = "prune.a"
           /\ ~UnreferencedPython("src/prune/a.py")

\* the reference set of the tree analysed
TextRefs == _build_text_reference_index(fs0, FileInfos(fs0, args.include, args.exclude))

\* the collected files whose text is searched for references
EligibleText == {p \in Collected : Lower(Suffix(p)) \in TEXT_EXTENSIONS /\ Len(fs0[p]) <= MAX_TEXT_BYTES}

\* C17: a path or file name is in the reference set only if it occurs in the
\* content of an eligible text file other than the file it names.
C17_ReferencedByAnotherFile ==
    pc \in {"analyzed", "planned"} =>
        \A term \in TextRefs :
            \E p \in EligibleText : p /= term /\ Name(p) /= term /\ Contains(fs0[p], term)

\* the three plan records at the root
PlanRecords == {"deletion_plan.json", "deletion_plan.md", "deletion_plan.diff"}

\* C16: a run without apply (analyze, then write_plan) moves, renames and
\* removes no file and creates no trash directory, undo script or closure
\* report: every file of the root keeps its content, and the only files
\* created or overwritten are the three plan records.
C16_DryRunWritesOnlyPlan ==
    /\ \A p \in DOMAIN fs0 \ PlanRecords : p \in DOMAIN fs /\ fs[p] = fs0[p]
    /\ DOMAIN fs \ DOMAIN fs0 \subseteq PlanRecords
    /\ written \subseteq PlanRecords
    /\ dirs = InitDirs(DOMAIN fs0)
    /\ moveLog = << >>
    /\ moved_rows = << >>

\* a plan with candidates has been written beside the files it lists
C16_Witness ==
    /\ pc = "planned"
    /\ PlanRecords \subseteq DOMAIN fs
    /\ Len(plan.candidates) > 0
    /\ \A k \in 1..Len(plan.candidates) : plan.candidates[k].path \in DOMAIN fs

\* the step is the start of an apply_plan call
ApplyCalled == Len(calls') > Len(calls) /\ calls'[Len(calls')] = "apply_plan"

\* the files under a trash directory
InTrash(f) == {p \in DOMAIN f : StartsWith(p, "._trash_")}

\* C18: every apply_plan call on a root moves its files into a trash
\* directory that did not exist before the call, and no step replaces a file
\* that an earlier apply placed under a trash directory.
C18_FreshTrashPerApply ==
    [][/\ ApplyCalled => TrashDirName(ts') \notin dirs
       /\ \A p \in InTrash(fs) : p \in DOMAIN fs' /\ fs'[p] = fs[p]]_vars

====
